---------------------------- MODULE Spec2Model ----------------------------
(***************************************************************************)
(* IP-based login throttling: the LoginAttempts service.                   *)
(*                                                                         *)
(* Two implementations exist in the repository: the repository-backed one  *)
(* (ip-based-login-throttling/login-attempts.ts, a TypeORM Repository) and *)
(* the in-memory one (a Map<string, ipAttempt>).  The variable `backend`   *)
(* says which of the two classes was constructed; every operation below    *)
(* dispatches on it to the translation of that class's method.             *)
(*                                                                         *)
(* Time is in milliseconds, as returned by Date.now().  The clock is       *)
(* positive (0 is the "no block" value of blockedUntil), non-decreasing,   *)
(* and moves on a grid of TickMs milliseconds.  A method that calls        *)
(* Date.now() twice may see the clock advance between the two reads.       *)
(*                                                                         *)
(* Spec follows one client address and records the last two calls and      *)
(* what they returned; SpecPair interleaves the calls of two addresses     *)
(* and records none.                                                       *)
(***************************************************************************)
EXTENDS Integers, FiniteSets, TLC

\* ------------------------------------------------------------------ bounds
TickMs == 250
MaxTick == 10
MaxCount == 4
PairMaxTick == 6

Addresses == {"A", "B"}
Backends == {"repo", "mem"}
MaxClock == MaxTick * TickMs
PairMaxClock == PairMaxTick * TickMs

\* ----------------------------------------------------------- configuration
\* Constructor parameters (seconds, a count, seconds).
blockDurationSec == 1
maxFailedAttempts == 3
resetFailedAttemptsTimeSec == 2

blockDuration == blockDurationSec * 1000
resetFailedAttemptsTime == resetFailedAttemptsTimeSec * 1000

\* ------------------------------------------------------------------- state
VARIABLES
    backend,         \* which class is in use: "repo" or "mem"
    failedAttempts,  \* the record store: address -> [count, lastAttempt, blockedUntil]
    clock,           \* the value Date.now() returns
    logging,         \* whether calls are recorded in last, prev and streak
    last,            \* the most recent call: its address and what it returned
    prev,            \* the call before it
    streak,          \* per address, length of the run of in-window handleLoginFailure
                     \* calls made since the address had no record (-1: run broken)
    inFlight,        \* per concurrent updateFailedAttempt call: where it stands,
                     \* the Date.now() it read and the record it is about to save
    baseline         \* the store when the first of the concurrent calls began

vars == <<backend, failedAttempts, clock, logging, last, prev, streak, inFlight, baseline>>

\* ----------------------------------------------------------------- helpers
Max(a, b) == IF a >= b THEN a ELSE b

\* Math.round(x / 1000): nearest integer, halves rounded towards +infinity.
MathRound(x) == (x + 500) \div 1000

\* Map.has / findOneBy returning an entity
Has(store, ip) == ip \in DOMAIN store

\* Map.set / Repository.save: upsert by address
Save(store, ip, r) ==
    [a \in DOMAIN store \cup {ip} |-> IF a = ip THEN r ELSE store[a]]

\* The empty message ''.  A message that carries a number n is {n}.
NoMessage == {}

NoCall ==
    [op |-> "none", ip |-> "", blocked |-> FALSE, blockDurationMessage |-> NoMessage,
     remainingAttemptsMessage |-> NoMessage, changed |-> FALSE, at |-> 0]

\* ------------------------------------------- repository-backed LoginAttempts
\* Each method is a function of the store, the address and the values its
\* Date.now() calls return; it yields the store it leaves and what it returns.

\* The message reports the time since the last attempt instead of the time left.
checkIfAddressIsAlreadyBlocked_Elapsed(store, ip, now1, now2) ==
    IF ~Has(store, ip)
    THEN [store |-> store, blocked |-> FALSE, blockDurationMessage |-> NoMessage]
    ELSE IF store[ip].count < maxFailedAttempts
    THEN [store |-> store, blocked |-> FALSE, blockDurationMessage |-> NoMessage]
    ELSE IF store[ip].blockedUntil < now1
    THEN [store |-> Save(store, ip, [store[ip] EXCEPT !.count = 0, !.blockedUntil = 0]),
          blocked |-> FALSE, blockDurationMessage |-> NoMessage]
    ELSE [store |-> store, blocked |-> TRUE,
          blockDurationMessage |-> {MathRound(now2 - store[ip].lastAttempt)}]

\* The check creates an empty record for an address that has none.
checkIfAddressIsAlreadyBlocked_Creates(store, ip, now1, now2) ==
    IF ~Has(store, ip)
    THEN [store |-> Save(store, ip, [count |-> 0, lastAttempt |-> now1, blockedUntil |-> 0]),
          blocked |-> FALSE, blockDurationMessage |-> NoMessage]
    ELSE IF store[ip].count < maxFailedAttempts
    THEN [store |-> store, blocked |-> FALSE, blockDurationMessage |-> NoMessage]
    ELSE IF store[ip].blockedUntil < now1
    THEN [store |-> Save(store, ip, [store[ip] EXCEPT !.count = 0, !.blockedUntil = 0]),
          blocked |-> FALSE, blockDurationMessage |-> NoMessage]
    ELSE [store |-> store, blocked |-> TRUE,
          blockDurationMessage |-> {MathRound(store[ip].blockedUntil - now2)}]

\* The expiry compared with <= instead of <.
checkIfAddressIsAlreadyBlocked_Inclusive(store, ip, now1, now2) ==
    IF ~Has(store, ip)
    THEN [store |-> store, blocked |-> FALSE, blockDurationMessage |-> NoMessage]
    ELSE IF store[ip].count < maxFailedAttempts
    THEN [store |-> store, blocked |-> FALSE, blockDurationMessage |-> NoMessage]
    ELSE IF store[ip].blockedUntil <= now1
    THEN [store |-> Save(store, ip, [store[ip] EXCEPT !.count = 0, !.blockedUntil = 0]),
          blocked |-> FALSE, blockDurationMessage |-> NoMessage]
    ELSE [store |-> store, blocked |-> TRUE,
          blockDurationMessage |-> {MathRound(store[ip].blockedUntil - now2)}]

\* Lifting an expired block also stamps lastAttempt.
checkIfAddressIsAlreadyBlocked_Stamps(store, ip, now1, now2) ==
    IF ~Has(store, ip)
    THEN [store |-> store, blocked |-> FALSE, blockDurationMessage |-> NoMessage]
    ELSE IF store[ip].count < maxFailedAttempts
    THEN [store |-> store, blocked |-> FALSE, blockDurationMessage |-> NoMessage]
    ELSE IF store[ip].blockedUntil < now1
    THEN [store |-> Save(store, ip, [count |-> 0, lastAttempt |-> now1, blockedUntil |-> 0]),
          blocked |-> FALSE, blockDurationMessage |-> NoMessage]
    ELSE [store |-> store, blocked |-> TRUE,
          blockDurationMessage |-> {MathRound(store[ip].blockedUntil - now2)}]

\* A block never expires.
checkIfAddressIsAlreadyBlocked_Sticky(store, ip, now1, now2) ==
    IF ~Has(store, ip)
    THEN [store |-> store, blocked |-> FALSE, blockDurationMessage |-> NoMessage]
    ELSE IF store[ip].count < maxFailedAttempts
    THEN [store |-> store, blocked |-> FALSE, blockDurationMessage |-> NoMessage]
    ELSE [store |-> store, blocked |-> TRUE,
          blockDurationMessage |-> {MathRound(Max(0, store[ip].blockedUntil - now2))}]

\* An expired block is lifted but the count is kept.
checkIfAddressIsAlreadyBlocked_KeepsCount(store, ip, now1, now2) ==
    IF ~Has(store, ip)
    THEN [store |-> store, blocked |-> FALSE, blockDurationMessage |-> NoMessage]
    ELSE IF store[ip].count < maxFailedAttempts
    THEN [store |-> store, blocked |-> FALSE, blockDurationMessage |-> NoMessage]
    ELSE IF store[ip].blockedUntil < now1
    THEN [store |-> Save(store, ip, [store[ip] EXCEPT !.blockedUntil = 0]),
          blocked |-> FALSE, blockDurationMessage |-> NoMessage]
    ELSE [store |-> store, blocked |-> TRUE,
          blockDurationMessage |-> {MathRound(store[ip].blockedUntil - now2)}]

checkIfAddressIsAlreadyBlocked(store, ip, now1, now2) ==
    IF ~Has(store, ip)
    THEN [store |-> store, blocked |-> FALSE, blockDurationMessage |-> NoMessage]
    ELSE IF store[ip].count < maxFailedAttempts
    THEN [store |-> store, blocked |-> FALSE, blockDurationMessage |-> NoMessage]
    ELSE IF store[ip].blockedUntil < now1
    THEN [store |-> Save(store, ip, [store[ip] EXCEPT !.count = 0, !.blockedUntil = 0]),
          blocked |-> FALSE, blockDurationMessage |-> NoMessage]
    ELSE [store |-> store, blocked |-> TRUE,
          blockDurationMessage |-> {MathRound(store[ip].blockedUntil - now2)}]

\* The window compared with >= instead of >.
incrementOrResetCountAttempts_AtWindow(attemptsForThisIP, now) ==
    IF now - attemptsForThisIP.lastAttempt >= resetFailedAttemptsTime
    THEN [attemptsForThisIP EXCEPT !.count = 1]
    ELSE [attemptsForThisIP EXCEPT !.count = @ + 1]

incrementOrResetCountAttempts(attemptsForThisIP, now) ==
    IF now - attemptsForThisIP.lastAttempt > resetFailedAttemptsTime
    THEN [attemptsForThisIP EXCEPT !.count = 1]
    ELSE [attemptsForThisIP EXCEPT !.count = @ + 1]

updateFailedAttempt(store, ip, now) ==
    LET attempt ==
            IF ~Has(store, ip)
            THEN [count |-> 1, lastAttempt |-> now, blockedUntil |-> 0]
            ELSE [incrementOrResetCountAttempts(store[ip], now) EXCEPT !.lastAttempt = now]
    IN  [store |-> Save(store, ip, attempt),
         remainingAttemptsMessage |-> {Max(0, maxFailedAttempts - attempt.count)}]

\* The threshold compared with > instead of >=: the block one failure late.
checkIfAddressReachedMaxAttempts_OnePast(store, ip, now) ==
    IF ~Has(store, ip) \/ store[ip].count <= maxFailedAttempts
    THEN [store |-> store, blocked |-> FALSE, blockDurationMessage |-> NoMessage]
    ELSE [store |-> Save(store, ip, [store[ip] EXCEPT !.blockedUntil = now + blockDuration]),
          blocked |-> TRUE,
          blockDurationMessage |-> {MathRound(blockDuration)}]

\* The block armed one failure early.
checkIfAddressReachedMaxAttempts_Early(store, ip, now) ==
    IF ~Has(store, ip) \/ store[ip].count < maxFailedAttempts - 1
    THEN [store |-> store, blocked |-> FALSE, blockDurationMessage |-> NoMessage]
    ELSE [store |-> Save(store, ip, [store[ip] EXCEPT !.blockedUntil = now + blockDuration]),
          blocked |-> TRUE,
          blockDurationMessage |-> {MathRound(blockDuration)}]

\* A block that is still running is left as it is.
checkIfAddressReachedMaxAttempts_KeepsActive(store, ip, now) ==
    IF ~Has(store, ip) \/ store[ip].count < maxFailedAttempts
    THEN [store |-> store, blocked |-> FALSE, blockDurationMessage |-> NoMessage]
    ELSE [store |-> IF store[ip].blockedUntil >= now
                    THEN store
                    ELSE Save(store, ip, [store[ip] EXCEPT !.blockedUntil = now + blockDuration]),
          blocked |-> TRUE,
          blockDurationMessage |-> {MathRound(blockDuration)}]

checkIfAddressReachedMaxAttempts(store, ip, now) ==
    IF ~Has(store, ip) \/ store[ip].count < maxFailedAttempts
    THEN [store |-> store, blocked |-> FALSE, blockDurationMessage |-> NoMessage]
    ELSE [store |-> Save(store, ip, [store[ip] EXCEPT !.blockedUntil = now + blockDuration]),
          blocked |-> TRUE,
          blockDurationMessage |-> {MathRound(blockDuration)}]

\* The threshold evaluated before the failure is recorded.
handleLoginFailure_ChecksFirst(store, ip, now1, now2) ==
    LET checked == checkIfAddressReachedMaxAttempts(store, ip, now1)
        updated == updateFailedAttempt(checked.store, ip, now2)
    IN  [store |-> updated.store,
         blocked |-> checked.blocked,
         blockDurationMessage |-> checked.blockDurationMessage,
         remainingAttemptsMessage |-> updated.remainingAttemptsMessage]

handleLoginFailure(store, ip, now1, now2) ==
    LET updated == updateFailedAttempt(store, ip, now1)
        checked == checkIfAddressReachedMaxAttempts(updated.store, ip, now2)
    IN  [store |-> checked.store,
         blocked |-> checked.blocked,
         blockDurationMessage |-> checked.blockDurationMessage,
         remainingAttemptsMessage |-> updated.remainingAttemptsMessage]

\* A successful login creates a cleared record for an address that has none.
resetAfterSuccessfulLogin_Creates(store, ip, now) ==
    [store |-> Save(store, ip, [count |-> 0, lastAttempt |-> now, blockedUntil |-> 0])]

\* A successful login clears the record of every address.
resetAfterSuccessfulLogin_All(store, ip, now) ==
    IF Has(store, ip)
    THEN [store |-> [a \in DOMAIN store |->
                        [count |-> 0, lastAttempt |-> now, blockedUntil |-> 0]]]
    ELSE [store |-> store]

\* The block is lifted but the count is kept.
resetAfterSuccessfulLogin_KeepsCount(store, ip, now) ==
    IF Has(store, ip)
    THEN [store |-> Save(store, ip, [store[ip] EXCEPT !.lastAttempt = now, !.blockedUntil = 0])]
    ELSE [store |-> store]

resetAfterSuccessfulLogin(store, ip, now) ==
    IF Has(store, ip)
    THEN [store |-> Save(store, ip, [count |-> 0, lastAttempt |-> now, blockedUntil |-> 0])]
    ELSE [store |-> store]

\* ----------------------------------------------------- in-memory LoginAttempts

MemCheckIfAddressIsAlreadyBlocked(store, ip, now1, now2) ==
    IF ~Has(store, ip)
    THEN [store |-> store, blocked |-> FALSE, blockDurationMessage |-> NoMessage]
    ELSE IF store[ip].count < maxFailedAttempts
    THEN [store |-> store, blocked |-> FALSE, blockDurationMessage |-> NoMessage]
    ELSE IF store[ip].blockedUntil < now1
    THEN [store |-> Save(store, ip, [store[ip] EXCEPT !.count = 0, !.blockedUntil = 0]),
          blocked |-> FALSE, blockDurationMessage |-> NoMessage]
    ELSE [store |-> store, blocked |-> TRUE,
          blockDurationMessage |-> {MathRound(store[ip].blockedUntil - now2)}]

MemIncrementOrResetCountAttempts(attemptsForThisIP, now) ==
    IF now - attemptsForThisIP.lastAttempt > resetFailedAttemptsTime
    THEN [attemptsForThisIP EXCEPT !.count = 1]
    ELSE [attemptsForThisIP EXCEPT !.count = @ + 1]

MemUpdateFailedAttempt(store, ip, now) ==
    LET attemptsForThisIP ==
            IF ~Has(store, ip)
            THEN [count |-> 1, lastAttempt |-> now, blockedUntil |-> 0]
            ELSE [MemIncrementOrResetCountAttempts(store[ip], now) EXCEPT !.lastAttempt = now]
    IN  [store |-> Save(store, ip, attemptsForThisIP),
         remainingAttemptsMessage |-> {maxFailedAttempts - attemptsForThisIP.count}]

\* The in-memory threshold compared with > instead of >=.
MemCheckIfAddressReachedMaxAttempts_OnePast(store, ip, now) ==
    IF Has(store, ip) /\ store[ip].count > maxFailedAttempts
    THEN [store |-> Save(store, ip, [store[ip] EXCEPT !.blockedUntil = now + blockDuration]),
          blocked |-> TRUE,
          blockDurationMessage |-> {MathRound(blockDuration)}]
    ELSE [store |-> store, blocked |-> FALSE, blockDurationMessage |-> NoMessage]

\* Map.get of a missing key is undefined; the spread of undefined is {} and
\* undefined >= maxFailedAttempts is false.
MemCheckIfAddressReachedMaxAttempts(store, ip, now) ==
    IF Has(store, ip) /\ store[ip].count >= maxFailedAttempts
    THEN [store |-> Save(store, ip, [store[ip] EXCEPT !.blockedUntil = now + blockDuration]),
          blocked |-> TRUE,
          blockDurationMessage |-> {MathRound(blockDuration)}]
    ELSE [store |-> store, blocked |-> FALSE, blockDurationMessage |-> NoMessage]

MemHandleLoginFailure(store, ip, now1, now2) ==
    LET updated == MemUpdateFailedAttempt(store, ip, now1)
        checked == MemCheckIfAddressReachedMaxAttempts(updated.store, ip, now2)
    IN  [store |-> checked.store,
         blocked |-> checked.blocked,
         blockDurationMessage |-> checked.blockDurationMessage,
         remainingAttemptsMessage |-> updated.remainingAttemptsMessage]

\* ----------------------------------------------------------------- actions
\* What a call leaves in `last`: the operation and its address, what it
\* returned, whether it changed the store, and the last clock value it read.
Call(op, ip, r, at) ==
    [op |-> op,
     ip |-> ip,
     blocked |-> IF "blocked" \in DOMAIN r THEN r.blocked ELSE FALSE,
     blockDurationMessage |->
         IF "blockDurationMessage" \in DOMAIN r THEN r.blockDurationMessage ELSE NoMessage,
     remainingAttemptsMessage |->
         IF "remainingAttemptsMessage" \in DOMAIN r THEN r.remainingAttemptsMessage ELSE NoMessage,
     changed |-> r.store # failedAttempts,
     at |-> at]

Log(call) ==
    IF logging
    THEN last' = call /\ prev' = last
    ELSE UNCHANGED <<last, prev>>

\* The counter is capped for the model: no failure is recorded on a record
\* whose count has reached MaxCount.
CanFail(ip) == Has(failedAttempts, ip) => failedAttempts[ip].count < MaxCount

\* A call other than handleLoginFailure ends the run of consecutive failures
\* (an address that still has no record is still at the start of a run).
StreakAfterOther(store, ip) == IF Has(store, ip) THEN -1 ELSE 0

StreakAfterFailure(ip, now) ==
    IF ~Has(failedAttempts, ip) THEN 1
    ELSE IF /\ streak[ip] >= 1
            /\ streak[ip] < maxFailedAttempts
            /\ now - failedAttempts[ip].lastAttempt <= resetFailedAttemptsTime
    THEN streak[ip] + 1
    ELSE -1

Run(ip, n) ==
    IF logging
    THEN streak' = [streak EXCEPT ![ip] = n]
    ELSE UNCHANGED streak

\* Two requests may run updateFailedAttempt at the same time; outside the
\* concurrent runs none is ever called.
Callers == {1, 2}
NotCalled ==
    [pc |-> "idle", now |-> 0,
     attempt |-> [count |-> 0, lastAttempt |-> 0, blockedUntil |-> 0]]

Init ==
    /\ backend \in Backends
    /\ logging = TRUE
    /\ failedAttempts = [a \in {} |-> 0]
    /\ clock = TickMs
    /\ last = NoCall
    /\ prev = NoCall
    /\ streak = [a \in Addresses |-> 0]
    /\ inFlight = [c \in Callers |-> NotCalled]
    /\ baseline = failedAttempts

\* Time passes.
Tick ==
    /\ clock < MaxClock
    /\ clock' = clock + TickMs
    /\ UNCHANGED <<backend, failedAttempts, logging, last, prev, streak, inFlight, baseline>>

\* isBlocked(ip).  The second Date.now() is read only on the blocked path.
IsBlocked(ip) ==
    \E d \in {0, TickMs} :
        LET r == IF backend = "repo"
                 THEN checkIfAddressIsAlreadyBlocked(failedAttempts, ip, clock, clock + d)
                 ELSE MemCheckIfAddressIsAlreadyBlocked(failedAttempts, ip, clock, clock + d)
        IN  /\ clock + d <= MaxClock
            /\ d = 0 \/ r.blocked
            /\ failedAttempts' = r.store
            /\ clock' = clock + d
            /\ Log(Call("isBlocked", ip, r, clock + d))
            /\ Run(ip, StreakAfterOther(r.store, ip))
            /\ UNCHANGED <<backend, logging, inFlight, baseline>>

\* recordFailure(ip)
RecordFailure(ip) ==
    LET r == IF backend = "repo"
             THEN updateFailedAttempt(failedAttempts, ip, clock)
             ELSE MemUpdateFailedAttempt(failedAttempts, ip, clock)
    IN  /\ CanFail(ip)
        /\ failedAttempts' = r.store
        /\ Log(Call("recordFailure", ip, r, clock))
        /\ Run(ip, StreakAfterOther(r.store, ip))
        /\ UNCHANGED <<backend, clock, logging, inFlight, baseline>>

\* evaluateBlockThreshold(ip)
EvaluateBlockThreshold(ip) ==
    LET r == IF backend = "repo"
             THEN checkIfAddressReachedMaxAttempts(failedAttempts, ip, clock)
             ELSE MemCheckIfAddressReachedMaxAttempts(failedAttempts, ip, clock)
    IN  /\ failedAttempts' = r.store
        /\ Log(Call("evaluateBlockThreshold", ip, r, clock))
        /\ Run(ip, StreakAfterOther(r.store, ip))
        /\ UNCHANGED <<backend, clock, logging, inFlight, baseline>>

\* handleLoginFailure(ip): Date.now() is read once when the failure is
\* recorded and once more when the threshold is evaluated.
HandleLoginFailure(ip) ==
    \E d \in {0, TickMs} :
        LET r == IF backend = "repo"
                 THEN handleLoginFailure(failedAttempts, ip, clock, clock + d)
                 ELSE MemHandleLoginFailure(failedAttempts, ip, clock, clock + d)
        IN  /\ CanFail(ip)
            /\ clock + d <= MaxClock
            /\ d = 0 \/ r.blocked
            /\ failedAttempts' = r.store
            /\ clock' = clock + d
            /\ Log(Call("handleLoginFailure", ip, r, clock + d))
            /\ Run(ip, StreakAfterFailure(ip, clock))
            /\ UNCHANGED <<backend, logging, inFlight, baseline>>

\* handleLoginSuccess(ip): only the repository-backed class has the method.
HandleLoginSuccess(ip) ==
    LET r == resetAfterSuccessfulLogin(failedAttempts, ip, clock)
    IN  /\ backend = "repo"
        /\ failedAttempts' = r.store
        /\ Log(Call("handleLoginSuccess", ip, r, clock))
        /\ Run(ip, StreakAfterOther(r.store, ip))
        /\ UNCHANGED <<backend, clock, logging, inFlight, baseline>>

\* One client address: every operation, at every clock value up to MaxClock.
Next ==
    \/ Tick
    \/ IsBlocked("A")
    \/ RecordFailure("A")
    \/ EvaluateBlockThreshold("A")
    \/ HandleLoginFailure("A")
    \/ HandleLoginSuccess("A")

Spec == Init /\ [][Next]_vars

\* Two client addresses whose calls interleave freely, up to PairMaxClock;
\* the calls are not recorded.
NextPair ==
    /\ \/ Tick
       \/ \E ip \in Addresses : IsBlocked(ip)
       \/ \E ip \in Addresses : RecordFailure(ip)
       \/ \E ip \in Addresses : EvaluateBlockThreshold(ip)
       \/ \E ip \in Addresses : HandleLoginFailure(ip)
       \/ \E ip \in Addresses : HandleLoginSuccess(ip)
    /\ clock' <= PairMaxClock

InitPair ==
    /\ backend \in Backends
    /\ logging = FALSE
    /\ failedAttempts = [a \in {} |-> 0]
    /\ clock = TickMs
    /\ last = NoCall
    /\ prev = NoCall
    /\ streak = [a \in Addresses |-> 0]
    /\ inFlight = [c \in Callers |-> NotCalled]
    /\ baseline = failedAttempts

SpecPair == InitPair /\ [][NextPair]_vars

\* ------------------------------------------------------------- type invariant
TypeOK ==
    /\ backend \in Backends
    /\ DOMAIN failedAttempts \subseteq Addresses
    /\ \A a \in DOMAIN failedAttempts :
          /\ failedAttempts[a].count \in 0..MaxCount
          /\ failedAttempts[a].lastAttempt \in TickMs..MaxClock
          /\ failedAttempts[a].blockedUntil \in 0..(MaxClock + blockDuration)
    /\ clock \in TickMs..MaxClock

\* =================================================================== claims
\* The record of address a, and the number a message carries.
Rec(a) == failedAttempts[a]
Seconds(call) == CHOOSE n \in call.blockDurationMessage : TRUE
Remaining(call) == CHOOSE n \in call.remainingAttemptsMessage : TRUE

\* ------------------------------------------------------------------------ C1
\* C1: starting from an address with no record, in a run of consecutive
\* handleLoginFailure calls that each fall within the reset window of the
\* previous one, the call number maxFailedAttempts returns blocked=true and
\* every earlier call of the run returns blocked=false.
C1_BlocksExactlyAtThreshold ==
    \A a \in Addresses :
        streak[a] >= 1 =>
            /\ last.op = "handleLoginFailure"
            /\ last.ip = a
            /\ last.blocked = (streak[a] = maxFailedAttempts)

\* The final call of such a run has returned blocked=true.
C1_Witness ==
    /\ streak["A"] = maxFailedAttempts
    /\ prev.op = "handleLoginFailure" /\ ~prev.blocked
    /\ last.op = "handleLoginFailure" /\ last.blocked
\* ------------------------------------------------------------------------ C2
\* C2 (as stated): in every reachable state a record's blockedUntil is
\* non-zero only if its failureCount >= maxFailedAttempts.
C2_BlockedUntilOnlyAtThreshold ==
    \A a \in DOMAIN failedAttempts :
        Rec(a).blockedUntil # 0 => Rec(a).count >= maxFailedAttempts

\* C2 (amended): a call gives a record's blockedUntil a new non-zero value
\* only when it leaves the record with failureCount >= maxFailedAttempts.
\* (A non-zero blockedUntil stays in the record when a later stale-window
\* recordFailure resets failureCount to 1.)
C2_BlockedUntilSetOnlyAtThreshold ==
    [][\A a \in DOMAIN failedAttempts' :
          LET before == IF Has(failedAttempts, a) THEN Rec(a).blockedUntil ELSE 0
              after == failedAttempts'[a].blockedUntil
          IN  (after # before /\ after # 0) =>
                  failedAttempts'[a].count >= maxFailedAttempts]_vars

\* A call has just armed a block on a record at the threshold.
C2_Witness ==
    /\ last.op \in {"evaluateBlockThreshold", "handleLoginFailure"}
    /\ last.blocked /\ last.changed
    /\ Rec("A").blockedUntil = last.at + blockDuration
    /\ Rec("A").count >= maxFailedAttempts

\* ------------------------------------------------------------------------ C3
\* The step is an isBlocked call for a that follows an isBlocked call for a
\* which returned blocked=true.
NextIsBlockedWhileBlocked(a) ==
    /\ last.op = "isBlocked" /\ last.ip = a /\ last.blocked
    /\ IsBlocked(a)

\* C3 (as stated): while an address is blocked, successive isBlocked calls at
\* strictly increasing clock values each return blocked=true, until
\* blockDuration has elapsed since the block was set, with a remaining-seconds
\* value strictly smaller than the one the previous call returned.
C3_RemainingStrictlyDecreases ==
    [][\A a \in Addresses :
          NextIsBlockedWhileBlocked(a) =>
              /\ Rec(a).blockedUntil >= clock => last'.blocked
              /\ (last'.blocked /\ last'.at > last.at) =>
                     Seconds(last') < Seconds(last)]_vars

\* C3 (amended): ... with a remaining-seconds value never larger than the one
\* the previous call returned.
C3_RemainingNeverIncreases ==
    [][\A a \in Addresses :
          NextIsBlockedWhileBlocked(a) =>
              /\ Rec(a).blockedUntil >= clock => last'.blocked
              /\ (last'.blocked /\ last'.at > last.at) =>
                     Seconds(last') <= Seconds(last)]_vars

\* Two successive isBlocked calls at increasing clock values, both blocked,
\* the second reporting fewer seconds.
C3_Witness ==
    /\ prev.op = "isBlocked" /\ prev.ip = "A" /\ prev.blocked
    /\ last.op = "isBlocked" /\ last.ip = "A" /\ last.blocked
    /\ last.at > prev.at
    /\ Seconds(last) < Seconds(prev)
\* ------------------------------------------------------------------------ C4
\* The step records a failure for a (recordFailure, alone or as the first
\* half of handleLoginFailure).
RecordsFailure(a) == RecordFailure(a) \/ HandleLoginFailure(a)

\* A block was set on a's record and has not been cleared.
BlockSet(a) ==
    /\ Has(failedAttempts, a)
    /\ Rec(a).count >= maxFailedAttempts
    /\ Rec(a).blockedUntil # 0

\* The last call was the isBlocked call that cleared a's expired block.
ClearedByIsBlocked(a) ==
    last.op = "isBlocked" /\ last.ip = a /\ last.changed

\* C4 (as stated): once blockDuration has elapsed since a block was set
\* (now >= blockedUntil), the next isBlocked call returns blocked=false and
\* rewrites the record with failureCount=0 and blockedUntil=0; the
\* recordFailure call that follows leaves failureCount at exactly 1.
C4_ClearedOnceDurationElapsed ==
    [][\A a \in Addresses :
          /\ (BlockSet(a) /\ clock >= Rec(a).blockedUntil /\ IsBlocked(a)) =>
                 /\ ~last'.blocked
                 /\ failedAttempts'[a].count = 0
                 /\ failedAttempts'[a].blockedUntil = 0
          /\ (ClearedByIsBlocked(a) /\ RecordsFailure(a)) =>
                 failedAttempts'[a].count = 1]_vars

\* C4 (amended): once more than blockDuration has elapsed since a block was
\* set (now > blockedUntil), the next isBlocked call returns blocked=false
\* and rewrites the record with failureCount=0 and blockedUntil=0; the
\* recordFailure call that follows leaves failureCount at exactly 1.
C4_ClearedAfterBlockedUntil ==
    [][\A a \in Addresses :
          /\ (BlockSet(a) /\ clock > Rec(a).blockedUntil /\ IsBlocked(a)) =>
                 /\ ~last'.blocked
                 /\ failedAttempts'[a].count = 0
                 /\ failedAttempts'[a].blockedUntil = 0
          /\ (ClearedByIsBlocked(a) /\ RecordsFailure(a)) =>
                 failedAttempts'[a].count = 1]_vars

\* An isBlocked call cleared an expired block and the recordFailure call
\* that followed, still inside the reset window of the last failure, left
\* the count at 1.
C4_Witness ==
    /\ prev.op = "isBlocked" /\ prev.ip = "A" /\ prev.changed /\ ~prev.blocked
    /\ last.op = "recordFailure" /\ last.ip = "A"
    /\ last.at <= TickMs + resetFailedAttemptsTime
    /\ Rec("A").count = 1

\* ------------------------------------------------------------------------ C5
\* The last call for a was handleLoginSuccess, or an isBlocked call that
\* directly followed it.
AfterSuccess(a) ==
    \/ last.op = "handleLoginSuccess" /\ last.ip = a
    \/ /\ prev.op = "handleLoginSuccess" /\ prev.ip = a
       /\ last.op = "isBlocked" /\ last.ip = a

\* C5: handleLoginSuccess on an address that has a record (accumulating or
\* blocked) sets failureCount=0, blockedUntil=0 and lastAttempt=now; the next
\* isBlocked for the address returns blocked=false and the next recordFailure
\* leaves failureCount at exactly 1, at any later clock value.
C5_SuccessClears ==
    [][\A a \in Addresses :
          /\ (Has(failedAttempts, a) /\ HandleLoginSuccess(a)) =>
                 failedAttempts'[a] =
                     [count |-> 0, lastAttempt |-> clock, blockedUntil |-> 0]
          /\ (Has(failedAttempts, a) /\ AfterSuccess(a) /\ IsBlocked(a)) =>
                 ~last'.blocked /\ failedAttempts' = failedAttempts
          /\ (Has(failedAttempts, a) /\ AfterSuccess(a) /\ RecordsFailure(a)) =>
                 failedAttempts'[a].count = 1]_vars

\* handleLoginSuccess changed a record and the recordFailure that followed
\* left the count at 1.
C5_Witness ==
    /\ prev.op = "handleLoginSuccess" /\ prev.ip = "A" /\ prev.changed
    /\ last.op = "recordFailure" /\ last.ip = "A"
    /\ last.at > prev.at
    /\ Rec("A").count = 1

\* ------------------------------------------------------------------------ C6
\* C6: recordFailure on an existing record sets failureCount to 1 when
\* now - lastAttempt > resetFailedAttemptsTime and otherwise (also when the
\* difference equals resetFailedAttemptsTime) adds exactly 1 to it; in both
\* cases lastAttempt becomes now.
C6_ResetOrIncrement ==
    [][\A a \in Addresses :
          (Has(failedAttempts, a) /\ RecordsFailure(a)) =>
              /\ failedAttempts'[a].count =
                     IF clock - Rec(a).lastAttempt > resetFailedAttemptsTime
                     THEN 1
                     ELSE Rec(a).count + 1
              /\ failedAttempts'[a].lastAttempt = clock]_vars

\* A failure recorded more than resetFailedAttemptsTime after the previous
\* failure has left the count at 1.
C6_Witness ==
    /\ prev.op \in {"recordFailure", "handleLoginFailure"} /\ prev.ip = "A"
    /\ last.op = "recordFailure" /\ last.ip = "A"
    /\ last.at - prev.at > resetFailedAttemptsTime
    /\ Rec("A").count = 1
    /\ Rec("A").lastAttempt = last.at
\* ------------------------------------------------------------------------ C7
\* C7: after every recordFailure / handleLoginFailure call, with either
\* class, the number of remaining attempts reported equals
\* max(0, maxFailedAttempts - failureCount) for the failureCount just stored,
\* and so is never negative.
C7_RemainingAttemptsClamped ==
    last.op \in {"recordFailure", "handleLoginFailure"} =>
        /\ Remaining(last) = Max(0, maxFailedAttempts - Rec(last.ip).count)
        /\ Remaining(last) >= 0

\* ------------------------------------------------------------------------ C8
\* ceil(x / 1000), the rounding the specification states.
MathCeil(x) == -((-x) \div 1000)

\* C8: when isBlocked returns blocked=true, the remaining seconds in its
\* message equal ceil((blockedUntil - now) / 1000), for every value of
\* blockedUntil - now >= 0.
C8_RemainingSecondsIsCeiling ==
    (/\ last.op = "isBlocked"
     /\ last.blocked
     /\ Rec(last.ip).blockedUntil - last.at >= 0) =>
        Seconds(last) = MathCeil(Rec(last.ip).blockedUntil - last.at)

\* ------------------------------------------------------------------------ C9
\* The record of a in a store, if any.
RecordOf(store, a) == IF Has(store, a) THEN {store[a]} ELSE {}

\* What each operation called for a at clock value now would return, and the
\* record it would leave for a.
OutcomesFor(store, a, now) ==
    LET c == IF backend = "repo"
             THEN checkIfAddressIsAlreadyBlocked(store, a, now, now)
             ELSE MemCheckIfAddressIsAlreadyBlocked(store, a, now, now)
        u == IF backend = "repo"
             THEN updateFailedAttempt(store, a, now)
             ELSE MemUpdateFailedAttempt(store, a, now)
        e == IF backend = "repo"
             THEN checkIfAddressReachedMaxAttempts(store, a, now)
             ELSE MemCheckIfAddressReachedMaxAttempts(store, a, now)
        h == IF backend = "repo"
             THEN handleLoginFailure(store, a, now, now)
             ELSE MemHandleLoginFailure(store, a, now, now)
        r == resetAfterSuccessfulLogin(store, a, now)
    IN  << <<c.blocked, c.blockDurationMessage, RecordOf(c.store, a)>>,
           <<u.remainingAttemptsMessage, RecordOf(u.store, a)>>,
           <<e.blocked, e.blockDurationMessage, RecordOf(e.store, a)>>,
           <<h.blocked, h.blockDurationMessage, h.remainingAttemptsMessage,
             RecordOf(h.store, a)>>,
           RecordOf(r.store, a) >>

\* The stores that a call for address b can leave, with the clock value the
\* call read last: every operation, with the clock advancing or not between
\* two reads of Date.now().
CallsFor(b) ==
    LET reads == {d \in {0, TickMs} : clock + d <= PairMaxClock}
        isBlocked ==
            {<<(IF backend = "repo"
                THEN checkIfAddressIsAlreadyBlocked(failedAttempts, b, clock, clock + d)
                ELSE MemCheckIfAddressIsAlreadyBlocked(failedAttempts, b, clock, clock + d)).store,
               clock + d>> : d \in reads}
        recordFailure ==
            {<<(IF backend = "repo"
                THEN updateFailedAttempt(failedAttempts, b, clock)
                ELSE MemUpdateFailedAttempt(failedAttempts, b, clock)).store,
               clock>>}
        evaluateBlockThreshold ==
            {<<(IF backend = "repo"
                THEN checkIfAddressReachedMaxAttempts(failedAttempts, b, clock)
                ELSE MemCheckIfAddressReachedMaxAttempts(failedAttempts, b, clock)).store,
               clock>>}
        handleFailure ==
            {<<(IF backend = "repo"
                THEN handleLoginFailure(failedAttempts, b, clock, clock + d)
                ELSE MemHandleLoginFailure(failedAttempts, b, clock, clock + d)).store,
               clock + d>> : d \in reads}
        handleSuccess ==
            IF backend = "repo"
            THEN {<<resetAfterSuccessfulLogin(failedAttempts, b, clock).store, clock>>}
            ELSE {}
    IN  isBlocked \cup recordFailure \cup evaluateBlockThreshold
            \cup handleFailure \cup handleSuccess

\* C9: in every state that interleaved calls for two addresses reach, a call
\* for address b leaves the record of every other address a as it was (absent
\* if it was absent) and does not change what any operation called for a
\* returns or does.
C9_AddressesIndependent ==
    \A a, b \in Addresses :
        a # b =>
            \A call \in CallsFor(b) :
                /\ RecordOf(call[1], a) = RecordOf(failedAttempts, a)
                /\ OutcomesFor(call[1], a, call[2]) =
                       OutcomesFor(failedAttempts, a, call[2])

\* A is blocked, and B, whose record shows a later call, has been cleared.
C9_Witness ==
    /\ Has(failedAttempts, "A") /\ Has(failedAttempts, "B")
    /\ Rec("A").count >= maxFailedAttempts
    /\ Rec("A").blockedUntil > clock
    /\ Rec("B").count = 0
    /\ Rec("B").lastAttempt > Rec("A").lastAttempt

\* ----------------------------------------------------------------------- C10
\* C10: isBlocked for an address with no record returns blocked=false with
\* an empty message and leaves the store unchanged (no record is created).
C10_NoRecordNotBlocked ==
    [][\A a \in Addresses :
          (~Has(failedAttempts, a) /\ IsBlocked(a)) =>
              /\ ~last'.blocked
              /\ last'.blockDurationMessage = NoMessage
              /\ failedAttempts' = failedAttempts]_vars

\* isBlocked has been called for an address that has no record.
C10_Witness ==
    /\ last.op = "isBlocked" /\ last.ip = "A"
    /\ ~last.blocked /\ ~last.changed
    /\ ~Has(failedAttempts, "A")

\* ----------------------------------------------------------------------- C11
\* C11: handleLoginSuccess for an address with no record is a no-op: the
\* store is unchanged and no record is created; a later recordFailure for
\* the address creates a record with failureCount=1 and blockedUntil=0.
C11_SuccessWithoutRecordIsNoOp ==
    [][\A a \in Addresses :
          /\ (~Has(failedAttempts, a) /\ HandleLoginSuccess(a)) =>
                 /\ failedAttempts' = failedAttempts
                 /\ ~Has(failedAttempts', a)
          /\ (~Has(failedAttempts, a) /\ RecordFailure(a)) =>
                 failedAttempts'[a] =
                     [count |-> 1, lastAttempt |-> clock, blockedUntil |-> 0]]_vars

\* handleLoginSuccess has been called for an address that has no record.
C11_Witness ==
    /\ last.op = "handleLoginSuccess" /\ last.ip = "A"
    /\ ~last.changed
    /\ ~Has(failedAttempts, "A")

\* ----------------------------------------------------------------------- C12
\* What isBlocked and handleLoginFailure return for a (blocked flag and the
\* seconds of the block message) and the store they leave, in each class,
\* when Date.now() returns now1 and then now2.
RepoAnswers(store, a, now1, now2) ==
    LET c == checkIfAddressIsAlreadyBlocked(store, a, now1, now2)
        h == handleLoginFailure(store, a, now1, now2)
    IN  <<c.blocked, c.blockDurationMessage, c.store,
          h.blocked, h.blockDurationMessage, h.store>>

MemAnswers(store, a, now1, now2) ==
    LET c == MemCheckIfAddressIsAlreadyBlocked(store, a, now1, now2)
        h == MemHandleLoginFailure(store, a, now1, now2)
    IN  <<c.blocked, c.blockDurationMessage, c.store,
          h.blocked, h.blockDurationMessage, h.store>>

\* C12: the two classes are interchangeable.  From every store that either
\* class reaches, the same isBlocked or handleLoginFailure call at the same
\* clock values returns the same blocked flag and the same block seconds in
\* both classes and leaves the same records (failureCount, lastAttempt,
\* blockedUntil) for every address; so two trackers run side by side on the
\* same calls agree after every call.
C12_TrackersInterchangeable ==
    \A a \in Addresses :
        \A d \in {0, TickMs} :
            RepoAnswers(failedAttempts, a, clock, clock + d) =
                MemAnswers(failedAttempts, a, clock, clock + d)

\* The in-memory class has just blocked an address, and both classes
\* answer isBlocked for it with blocked=true.
C12_Witness ==
    /\ backend = "mem"
    /\ last.op = "handleLoginFailure" /\ last.ip = "A" /\ last.blocked
    /\ checkIfAddressIsAlreadyBlocked(failedAttempts, "A", clock, clock).blocked
    /\ MemCheckIfAddressIsAlreadyBlocked(failedAttempts, "A", clock, clock).blocked

\* ----------------------------------------------------------------------- C13
\* C13 (as stated): isBlocked returns blocked=true exactly when a record
\* exists with failureCount >= maxFailedAttempts and blockedUntil still in
\* the future; in every other case, also when now equals blockedUntil, it
\* returns blocked=false.
C13_BlockedIffUntilInFuture ==
    [][\A a \in Addresses :
          IsBlocked(a) =>
              (last'.blocked <=>
                  /\ Has(failedAttempts, a)
                  /\ Rec(a).count >= maxFailedAttempts
                  /\ Rec(a).blockedUntil > clock)]_vars

\* C13 (amended): isBlocked returns blocked=true exactly when a record
\* exists with failureCount >= maxFailedAttempts and blockedUntil >= now (at
\* now equal to blockedUntil the address is still blocked); in every other
\* case it returns blocked=false.
C13_BlockedIffUntilNotPassed ==
    [][\A a \in Addresses :
          IsBlocked(a) =>
              (last'.blocked <=>
                  /\ Has(failedAttempts, a)
                  /\ Rec(a).count >= maxFailedAttempts
                  /\ Rec(a).blockedUntil >= clock)]_vars

\* isBlocked called at the very millisecond blockedUntil has returned
\* blocked=true.
C13_Witness ==
    /\ last.op = "isBlocked" /\ last.ip = "A" /\ last.blocked
    /\ Rec("A").count >= maxFailedAttempts
    /\ Rec("A").blockedUntil = last.at
    /\ clock = last.at

\* ----------------------------------------------------------------------- C14
\* C14: handleLoginFailure records the failure before it evaluates the
\* threshold: it returns blocked=true if and only if the failureCount its
\* own recordFailure step stored is >= maxFailedAttempts.
C14_ThresholdSeesOwnFailure ==
    \A a \in Addresses :
        (last.op = "handleLoginFailure" /\ last.ip = a) =>
            (last.blocked <=> Rec(a).count >= maxFailedAttempts)

\* The failure that brought the count to the threshold returned
\* blocked=true, the one before it blocked=false.
C14_Witness ==
    /\ prev.op = "handleLoginFailure" /\ prev.ip = "A" /\ ~prev.blocked
    /\ last.op = "handleLoginFailure" /\ last.ip = "A" /\ last.blocked
    /\ Rec("A").count = maxFailedAttempts

\* ----------------------------------------------------------------------- C15
\* The address is inside an active block: isBlocked would answer blocked=true.
ActiveBlock(a) ==
    /\ Has(failedAttempts, a)
    /\ Rec(a).count >= maxFailedAttempts
    /\ Rec(a).blockedUntil >= clock

\* C15 (as stated): evaluateBlockThreshold on a record with failureCount >=
\* maxFailedAttempts sets blockedUntil to exactly now + blockDurationMs and
\* returns blocked=true, also inside an active block; handleLoginFailure
\* never moves blockedUntil backwards, and every handleLoginFailure inside an
\* active block moves blockedUntil forward.
C15_FailureWhileBlockedExtends ==
    [][\A a \in Addresses :
          /\ (EvaluateBlockThreshold(a) /\ Has(failedAttempts, a)
                  /\ Rec(a).count >= maxFailedAttempts) =>
                 /\ failedAttempts'[a].blockedUntil = clock + blockDuration
                 /\ last'.blocked
          /\ (HandleLoginFailure(a) /\ Has(failedAttempts, a)) =>
                 failedAttempts'[a].blockedUntil >= Rec(a).blockedUntil
          /\ (HandleLoginFailure(a) /\ ActiveBlock(a)) =>
                 failedAttempts'[a].blockedUntil > Rec(a).blockedUntil]_vars

\* C15 (amended): evaluateBlockThreshold on a record with failureCount >=
\* maxFailedAttempts sets blockedUntil to exactly now + blockDurationMs and
\* returns blocked=true, also inside an active block; handleLoginFailure
\* never moves blockedUntil backwards, and a handleLoginFailure inside an
\* active block that leaves failureCount >= maxFailedAttempts sets
\* blockedUntil to the time of its threshold evaluation + blockDurationMs.
C15_FailureWhileBlockedRearms ==
    [][\A a \in Addresses :
          /\ (EvaluateBlockThreshold(a) /\ Has(failedAttempts, a)
                  /\ Rec(a).count >= maxFailedAttempts) =>
                 /\ failedAttempts'[a].blockedUntil = clock + blockDuration
                 /\ last'.blocked
          /\ (HandleLoginFailure(a) /\ Has(failedAttempts, a)) =>
                 failedAttempts'[a].blockedUntil >= Rec(a).blockedUntil
          /\ (HandleLoginFailure(a) /\ ActiveBlock(a)
                  /\ failedAttempts'[a].count >= maxFailedAttempts) =>
                 /\ last'.blocked
                 /\ failedAttempts'[a].blockedUntil = clock' + blockDuration]_vars

\* Two failures inside one block, the second at a later time: the block end
\* has moved to the time of the second one + blockDuration.
C15_Witness ==
    /\ prev.op = "handleLoginFailure" /\ prev.ip = "A" /\ prev.blocked
    /\ last.op = "handleLoginFailure" /\ last.ip = "A" /\ last.blocked
    /\ last.at > prev.at
    /\ Rec("A").count > maxFailedAttempts
    /\ Rec("A").blockedUntil = last.at + blockDuration


\* ----------------------------------------------------------------------- C16
\* C16: isBlocked changes the store only when failureCount >=
\* maxFailedAttempts and blockedUntil has passed, and then only failureCount
\* and blockedUntil of that address (both to 0); it never changes
\* lastAttemptAt nor creates a record; when it returns blocked=true or finds
\* failureCount < maxFailedAttempts the store is unchanged.  The passage of
\* time alone changes no record.
C16_IsBlockedWritesOnlyTheClear ==
    [][/\ \A a \in Addresses :
             IsBlocked(a) =>
                 /\ DOMAIN failedAttempts' = DOMAIN failedAttempts
                 /\ Has(failedAttempts, a) =>
                        failedAttempts'[a].lastAttempt = Rec(a).lastAttempt
                 /\ failedAttempts' # failedAttempts =>
                        /\ Has(failedAttempts, a)
                        /\ Rec(a).count >= maxFailedAttempts
                        /\ Rec(a).blockedUntil < clock
                        /\ failedAttempts' =
                               [failedAttempts EXCEPT ![a].count = 0, ![a].blockedUntil = 0]
                 /\ (last'.blocked \/ (Has(failedAttempts, a)
                                          /\ Rec(a).count < maxFailedAttempts)) =>
                        failedAttempts' = failedAttempts
       /\ Tick => failedAttempts' = failedAttempts]_vars

\* isBlocked has lifted an expired block: the count and the block end are
\* cleared, lastAttemptAt is still the time of the last failure.
C16_Witness ==
    /\ last.op = "isBlocked" /\ last.ip = "A" /\ last.changed /\ ~last.blocked
    /\ Rec("A").count = 0 /\ Rec("A").blockedUntil = 0
    /\ Rec("A").lastAttempt < last.at

\* ----------------------------------------------------------------------- C17
\* The caller's traffic for one address while the clock runs to MaxClock:
\* failures arrive only while a block they set can still run out before
\* MaxClock, after which only time passes and isBlocked is called.
CanRunOut == clock + TickMs + blockDuration < MaxClock

NextRelease ==
    \/ Tick
    \/ IsBlocked("A")
    \/ CanRunOut /\ HandleLoginFailure("A")

\* The clock keeps advancing and isBlocked keeps being called.
SpecRelease ==
    /\ Init
    /\ [][NextRelease]_vars
    /\ WF_vars(Tick)
    /\ WF_vars(IsBlocked("A"))

\* No record, or a count below the threshold: isBlocked answers
\* blocked=false whatever the time.
Released(a) == Has(failedAttempts, a) => Rec(a).count < maxFailedAttempts

\* C17: a blocked address is eventually released: when the clock keeps
\* advancing, isBlocked keeps being called and no further failure is handled,
\* some isBlocked call returns blocked=false; after it, every isBlocked call
\* returns blocked=false until a new failure is recorded.
C17_BlockEventuallyReleased ==
    /\ \A a \in Addresses :
           ActiveBlock(a) ~>
               (last.op = "isBlocked" /\ last.ip = a /\ ~last.blocked /\ Released(a))
    /\ [][\A a \in Addresses :
             /\ (Released(a) /\ IsBlocked(a)) => ~last'.blocked
             /\ (Released(a) /\ ~RecordsFailure(a)) => Released(a)']_vars

\* A block was observed by isBlocked, and a later isBlocked call lifted it.
C17_Witness ==
    /\ prev.op = "isBlocked" /\ prev.ip = "A" /\ prev.blocked
    /\ last.op = "isBlocked" /\ last.ip = "A" /\ ~last.blocked /\ last.changed
    /\ Released("A")

\* ----------------------------------------------------------------------- C18
\* updateFailedAttempt of the repository-backed class, step by step: the
\* call reads Date.now() and issues findOneBy; when findOneBy resolves it
\* computes the record to save from what was found; the save lands later.
\* Other calls and the clock may move between the steps.
RaceAddress == "A"
NoneCalled == \A c \in Callers : inFlight[c].pc = "idle"
AllSaved == \A c \in Callers : inFlight[c].pc = "saved"

UpdateCall(c) ==
    /\ inFlight[c].pc = "idle"
    /\ inFlight' = [inFlight EXCEPT ![c].pc = "findOneBy", ![c].now = clock]
    /\ baseline' = IF NoneCalled THEN failedAttempts ELSE baseline
    /\ UNCHANGED <<backend, failedAttempts, clock, logging, last, prev, streak>>

UpdateFound(c) ==
    /\ inFlight[c].pc = "findOneBy"
    /\ inFlight' =
           [inFlight EXCEPT
               ![c].pc = "save",
               ![c].attempt =
                   updateFailedAttempt(failedAttempts, RaceAddress,
                                       inFlight[c].now).store[RaceAddress]]
    /\ UNCHANGED <<backend, failedAttempts, clock, logging, last, prev, streak, baseline>>

UpdateSaved(c) ==
    /\ inFlight[c].pc = "save"
    /\ failedAttempts' = Save(failedAttempts, RaceAddress, inFlight[c].attempt)
    /\ inFlight' = [inFlight EXCEPT ![c].pc = "saved"]
    /\ UNCHANGED <<backend, clock, logging, last, prev, streak, baseline>>

\* Failures are first recorded one at a time, then two calls run
\* concurrently while time passes.
NextRace ==
    \/ Tick
    \/ NoneCalled /\ RecordFailure(RaceAddress)
    \/ \E c \in Callers : UpdateCall(c)
    \/ \E c \in Callers : UpdateFound(c)
    \/ \E c \in Callers : UpdateSaved(c)

InitRace ==
    /\ backend = "repo"
    /\ logging = FALSE
    /\ failedAttempts = [a \in {} |-> 0]
    /\ clock = TickMs
    /\ last = NoCall
    /\ prev = NoCall
    /\ streak = [a \in Addresses |-> 0]
    /\ inFlight = [c \in Callers |-> NotCalled]
    /\ baseline = failedAttempts

SpecRace == InitRace /\ [][NextRace]_vars

\* The count left by the two calls run one after the other from `baseline`,
\* caller c first, each with the Date.now() it read.
SequentialCount(c, d) ==
    LET first == updateFailedAttempt(baseline, RaceAddress, inFlight[c].now).store
        second == updateFailedAttempt(first, RaceAddress, inFlight[d].now).store
    IN  second[RaceAddress].count

\* C18: when two recordFailure calls for one address interleave
\* between store read and store write, the stored failureCount never ends
\* higher than after running the two calls sequentially (in the better of
\* the two orders).
C18_RaceOnlyUnderCounts ==
    AllSaved =>
        Rec(RaceAddress).count <= Max(SequentialCount(1, 2), SequentialCount(2, 1))


\* ----------------------------------------------------------------------- C19
\* The three operations a caller uses, one call at a time: isBlocked,
\* handleLoginFailure and handleLoginSuccess.
NextCaller ==
    \/ Tick
    \/ IsBlocked("A")
    \/ HandleLoginFailure("A")
    \/ HandleLoginSuccess("A")

SpecCaller == Init /\ [][NextCaller]_vars

\* C19: in sequential executions that use only isBlocked, handleLoginFailure
\* and handleLoginSuccess, every record seen between two operations with
\* failureCount >= maxFailedAttempts has a non-zero blockedUntil.
C19_AtThresholdHasBlockEnd ==
    \A a \in DOMAIN failedAttempts :
        Rec(a).count >= maxFailedAttempts => Rec(a).blockedUntil # 0

\* A record past the threshold whose block has run out and has not been
\* looked at since: its blockedUntil is still the block end.
C19_Witness ==
    /\ last.op = "handleLoginFailure" /\ last.ip = "A" /\ last.blocked
    /\ Rec("A").count > maxFailedAttempts
    /\ Rec("A").blockedUntil # 0
    /\ Rec("A").blockedUntil < clock

\* ----------------------------------------------------------------------- C20
\* The caller's protocol for one address: isBlocked first, and
\* handleLoginFailure or handleLoginSuccess only when the isBlocked call just
\* before returned blocked=false.
MayLogin(a) == last.op = "isBlocked" /\ last.ip = a /\ ~last.blocked

NextProtocol ==
    \/ Tick
    \/ IsBlocked("A")
    \/ MayLogin("A") /\ HandleLoginFailure("A")
    \/ MayLogin("A") /\ HandleLoginSuccess("A")

SpecProtocol == Init /\ [][NextProtocol]_vars

\* C20: when the caller follows the protocol, one call at a time, the stored
\* failureCount never exceeds maxFailedAttempts.
C20_CountAtMostThreshold ==
    \A a \in DOMAIN failedAttempts : Rec(a).count <= maxFailedAttempts

\* The failure that reached the threshold, let through by an isBlocked call
\* that returned blocked=false, and the isBlocked call that now stops the
\* caller.
C20_Witness ==
    /\ prev.op = "handleLoginFailure" /\ prev.ip = "A" /\ prev.blocked
    /\ last.op = "isBlocked" /\ last.ip = "A" /\ last.blocked
    /\ Rec("A").count = maxFailedAttempts
=============================================================================
